---- MODULE Spec2Model ----
(***************************************************************************)
(* The msgpack zone (arena) allocator of src/zone.c as a state machine.    *)
(*                                                                         *)
(* Backing memory: chunk blocks live at the addresses 1..NumAddr; malloc   *)
(* returns any address that holds no live block (a fresh one or one that   *)
(* was freed before), or fails.  The finalizer array is a separate block   *)
(* that realloc grows.  size_t is WordBits wide and wraps modulo Word.     *)
(* A read through a pointer to no live block yields any value or traps     *)
(* (pc = "crashed"); a store through the null pointer traps.               *)
(***************************************************************************)
EXTENDS Integers, Sequences, FiniteSets, TLC

\* ---- bounds of the model
WordBits == 2
NumAddr == 2
MaxFin == 5

\* ---- program constants
\* sizeof(msgpack_zone_chunk), scaled to the model's word
sizeof_msgpack_zone_chunk == 1
\* sizeof(msgpack_zone_finalizer): a function pointer and a data pointer
sizeof_msgpack_zone_finalizer == 16

Word == 2^WordBits
Sizes == 0..(Word - 1)
NULL == 0
Addrs == 1..NumAddr
Ptrs == 0..NumAddr

VARIABLES
    pc,          \* "start" | "idle" | "clear_chunk_list" | "destroy_chunk_list"
                 \* | "destroyed" | "hung" | "crashed"
    zone_live,   \* the msgpack_zone record is allocated
    chunk_size,  \* zone->chunk_size
    heap,        \* the chunk blocks: [live, next, size] per address
    cl,          \* zone->chunk_list: [head, free, ptr]; ptr = [base, off]
    fa,          \* zone->finalizer_array: [array, tail, end]; tail, end as indexes
    c,           \* the local c of clear_chunk_list / destroy_chunk_list
    ret,         \* what the last completed call returned: [ok, base, off]
    event,       \* the last call: [op, size, slow, oom]
    cleared,     \* msgpack_zone_clear has been called since new
    called,      \* the callbacks the last call invoked, in order
    regs,        \* the entries registered successfully since new/clear, in order
    expected,    \* regs as it was when the last call began, if it was a clear/destroy
    handed       \* bytes handed out by allocate since new/clear, per address

vars == <<pc, zone_live, chunk_size, heap, cl, fa, c, ret, event, cleared, called,
          regs, expected, handed>>

\* ---------------------------------------------------------------- helpers

FreedChunk == [live |-> FALSE, next |-> NULL, size |-> 0]

Live(p) == p \in Addrs /\ heap[p].live

FreeAddrs == {a \in Addrs : ~heap[a].live}

NoRet == [ok |-> FALSE, base |-> NULL, off |-> 0]
RetOk == [ok |-> TRUE, base |-> NULL, off |-> 0]
RetPtr(b, o) == [ok |-> TRUE, base |-> b, off |-> o]

Ev(op, slow, oom) == [op |-> op, size |-> 0, slow |-> slow, oom |-> oom]
EvAlloc(size, slow, oom) == [op |-> "allocate", size |-> size, slow |-> slow, oom |-> oom]

NoHanded == [a \in Addrs |-> {}]

Bytes(o, n) == {i \in Sizes : o <= i /\ i < o + n}

Uninit == [func |-> 0, data |-> 0]


\* malloc(sizeof(msgpack_zone_chunk) + sz): the payload bytes the block really has
PayloadOf(sz) == ((sizeof_msgpack_zone_chunk + sz) % Word) - sizeof_msgpack_zone_chunk

\* free(p) on the chunk blocks: free(NULL) does nothing
free_chunk(h, p) == IF p \in Addrs THEN [h EXCEPT ![p] = FreedChunk] ELSE h

\* the values a read of p->next can yield
read_next(p) == IF Live(p) THEN {heap[p].next} ELSE Ptrs

Crash ==
    /\ pc' = "crashed"
    /\ UNCHANGED <<zone_live, chunk_size, heap, cl, fa, c, ret, cleared,
                   called, regs, expected, handed>>

\* ---------------------------------------------------------------- Init

Init ==
    /\ pc = "start"
    /\ zone_live = FALSE
    /\ chunk_size = 0
    /\ heap = [a \in Addrs |-> FreedChunk]
    /\ cl = [head |-> NULL, free |-> 0, ptr |-> [base |-> NULL, off |-> 0]]
    /\ fa = [array |-> <<>>, tail |-> 0, end |-> 0]
    /\ c = NULL
    /\ ret = NoRet
    /\ event = Ev("none", FALSE, FALSE)
    /\ cleared = FALSE
    /\ called = <<>>
    /\ regs = <<>>
    /\ expected = <<>>
    /\ handed = NoHanded

\* ---------------------------------------------------------------- new

\* init_chunk_list, malloc succeeded at address a
init_chunk_list(a, size) ==
    /\ heap' = [heap EXCEPT ![a] = [live |-> TRUE, next |-> NULL,
                                    size |-> PayloadOf(size)]]
    /\ cl' = [head |-> a, free |-> size, ptr |-> [base |-> a, off |-> 0]]

init_finalizer_array ==
    fa' = [array |-> <<>>, tail |-> 0, end |-> 0]

msgpack_zone_new(size) ==
    /\ pc = "start"
    /\ \/ \* malloc of the zone record fails
          /\ ret' = NoRet
          /\ event' = Ev("new", FALSE, TRUE)
          /\ UNCHANGED <<pc, zone_live, chunk_size, heap, cl, fa>>
       \/ \* the zone record is allocated, init_chunk_list fails: free(zone)
          /\ ret' = NoRet
          /\ event' = Ev("new", TRUE, TRUE)
          /\ zone_live' = FALSE
          /\ UNCHANGED <<pc, chunk_size, heap, cl, fa>>
       \/ \E a \in FreeAddrs :
          /\ zone_live' = TRUE
          /\ chunk_size' = size
          /\ init_chunk_list(a, size)
          /\ init_finalizer_array
          /\ ret' = RetOk
          /\ event' = Ev("new", FALSE, FALSE)
          /\ pc' = "idle"
    /\ called' = <<>>
    /\ expected' = <<>>
    /\ UNCHANGED <<c, cleared, regs, handed>>

\* ---------------------------------------------------------------- allocate

Diverged == 0 - 1

\* while(sz < size) { sz *= 2; } on size_t: the final sz, or Diverged when the
\* loop never ends (sz is 0, or wraps to 0, below size)
RECURSIVE expand_loop(_, _)
expand_loop(sz, size) ==
    IF sz >= size THEN sz
    ELSE IF sz = 0 THEN Diverged
    ELSE expand_loop((sz * 2) % Word, size)

\* the loop never returns: the call hangs
malloc_expand_hang(size) ==
    /\ expand_loop(chunk_size, size) = Diverged
    /\ pc' = "hung"
    /\ event' = EvAlloc(size, TRUE, FALSE)
    /\ UNCHANGED <<zone_live, chunk_size, heap, cl, fa, c, ret, regs, handed>>

\* malloc returned the block at a
malloc_expand_ok(size, a) ==
    LET sz == expand_loop(chunk_size, size) IN
    /\ sz # Diverged
    /\ heap' = [heap EXCEPT ![a] = [live |-> TRUE, next |-> cl.head,
                                    size |-> PayloadOf(sz)]]
    /\ cl' = [head |-> a, free |-> sz - size, ptr |-> [base |-> a, off |-> size]]
    /\ ret' = RetPtr(a, 0)
    /\ handed' = [handed EXCEPT ![a] = @ \cup Bytes(0, size)]
    /\ event' = EvAlloc(size, TRUE, FALSE)
    /\ UNCHANGED <<pc, zone_live, chunk_size, fa, c, regs>>

\* malloc returned NULL: chunk->next = cl->head stores through the null
\* pointer (there is no check of chunk against NULL)
malloc_expand_null(size) ==
    /\ expand_loop(chunk_size, size) # Diverged
    /\ event' = EvAlloc(size, TRUE, TRUE)
    /\ pc' = "crashed"
    /\ UNCHANGED <<zone_live, chunk_size, heap, cl, fa, c, ret, regs, handed>>

msgpack_zone_malloc_expand(size) ==
    \/ malloc_expand_hang(size)
    \/ \E a \in FreeAddrs : malloc_expand_ok(size, a)
    \/ malloc_expand_null(size)

\* the inline fast path: bump the cursor of the head chunk
msgpack_zone_malloc_fast(size) ==
    /\ ret' = RetPtr(cl.ptr.base, cl.ptr.off)
    /\ cl' = [cl EXCEPT !.free = cl.free - size,
                        !.ptr = [base |-> cl.ptr.base, off |-> cl.ptr.off + size]]
    /\ handed' = [handed EXCEPT ![cl.ptr.base] = @ \cup Bytes(cl.ptr.off, size)]
    /\ event' = EvAlloc(size, FALSE, FALSE)
    /\ UNCHANGED <<pc, zone_live, chunk_size, heap, fa, c, regs>>

msgpack_zone_malloc(size) ==
    /\ pc = "idle"
    /\ called' = <<>>
    /\ expected' = <<>>
    /\ UNCHANGED cleared
    /\ IF cl.free < size
       THEN msgpack_zone_malloc_expand(size)
       ELSE msgpack_zone_malloc_fast(size)

\* ---------------------------------------------------------------- finalizers

\* faulty variant: the loop runs upwards, from array to tail-1
call_finalizer_array_forward ==
    [i \in 1..fa.tail |-> fa.array[i]]

\* the callbacks call_finalizer_array invokes, in order: tail-1 down to array
call_finalizer_array ==
    [i \in 1..fa.tail |-> fa.array[fa.tail + 1 - i]]

\* nnext when nused is 0
first_nnext ==
    IF sizeof_msgpack_zone_finalizer < 72 \div 2
    THEN 72 \div sizeof_msgpack_zone_finalizer
    ELSE 8

\* faulty variant: an allocated array grows by one slot instead of doubling
push_finalizer_expand_ok_by_one(func, data) ==
    LET nused == fa.end
        nnext == IF nused = 0 THEN first_nnext ELSE nused + 1
        tmp == [i \in 1..nnext |-> IF i <= Len(fa.array) THEN fa.array[i] ELSE Uninit]
    IN
    /\ fa' = [array |-> [tmp EXCEPT ![nused + 1] = [func |-> func, data |-> data]],
              end |-> nnext,
              tail |-> nused + 1]
    /\ ret' = RetOk
    /\ regs' = Append(regs, [func |-> func, data |-> data])
    /\ event' = Ev("register", TRUE, FALSE)

\* realloc(fa->array, nnext entries) succeeded: old contents kept, the rest
\* uninitialized
push_finalizer_expand_ok(func, data) ==
    LET nused == fa.end
        nnext == IF nused = 0 THEN first_nnext ELSE nused * 2
        tmp == [i \in 1..nnext |-> IF i <= Len(fa.array) THEN fa.array[i] ELSE Uninit]
    IN
    /\ fa' = [array |-> [tmp EXCEPT ![nused + 1] = [func |-> func, data |-> data]],
              end |-> nnext,
              tail |-> nused + 1]
    /\ ret' = RetOk
    /\ regs' = Append(regs, [func |-> func, data |-> data])
    /\ event' = Ev("register", TRUE, FALSE)

\* faulty variant: fa->end is moved to the new capacity before tmp is tested
push_finalizer_expand_fail_grown(func, data) ==
    /\ ret' = NoRet
    /\ event' = Ev("register", TRUE, TRUE)
    /\ fa' = [fa EXCEPT !.end = IF fa.end = 0 THEN first_nnext ELSE fa.end * 2]
    /\ UNCHANGED regs

\* realloc returned NULL: return 0
push_finalizer_expand_fail(func, data) ==
    /\ ret' = NoRet
    /\ event' = Ev("register", TRUE, TRUE)
    /\ UNCHANGED <<fa, regs>>

msgpack_zone_push_finalizer_expand(func, data) ==
    /\ \/ push_finalizer_expand_ok(func, data)
       \/ push_finalizer_expand_fail(func, data)
    /\ UNCHANGED <<pc, zone_live, chunk_size, heap, cl, c, handed>>

\* the inline fast path: a slot is left, write the entry at tail
msgpack_zone_push_finalizer_fast(func, data) ==
    /\ fa' = [fa EXCEPT !.array[fa.tail + 1] = [func |-> func, data |-> data],
                        !.tail = fa.tail + 1]
    /\ ret' = RetOk
    /\ regs' = Append(regs, [func |-> func, data |-> data])
    /\ event' = Ev("register", FALSE, FALSE)
    /\ UNCHANGED <<pc, zone_live, chunk_size, heap, cl, c, handed>>

msgpack_zone_push_finalizer(func, data) ==
    /\ pc = "idle"
    /\ called' = <<>>
    /\ expected' = <<>>
    /\ UNCHANGED cleared
    /\ Len(regs) < MaxFin
    /\ IF fa.tail = fa.end
       THEN msgpack_zone_push_finalizer_expand(func, data)
       ELSE msgpack_zone_push_finalizer_fast(func, data)

\* ---------------------------------------------------------------- is_empty

\* faulty variant: the finalizer array is not looked at
msgpack_zone_is_empty_chunks_only ==
    IF cl.free = chunk_size
    THEN {n = NULL : n \in read_next(cl.head)}
    ELSE {FALSE}

\* the values msgpack_zone_is_empty can return: cl->head->next is read only
\* when cl->free == zone->chunk_size, and through a dangling head it is any value
msgpack_zone_is_empty ==
    IF cl.free = chunk_size
    THEN {n = NULL /\ fa.tail = 0 : n \in read_next(cl.head)}
    ELSE {FALSE}

IsEmpty ==
    /\ pc = "idle"
    /\ \E r \in msgpack_zone_is_empty :
          ret' = [ok |-> r, base |-> NULL, off |-> 0]
    /\ event' = Ev("is_empty", FALSE, FALSE)
    /\ called' = <<>>
    /\ expected' = <<>>
    /\ UNCHANGED <<pc, zone_live, chunk_size, heap, cl, fa, c, cleared, regs, handed>>

\* cl->head->next read through a head that is no live chunk may trap
is_empty_crash ==
    /\ pc = "idle"
    /\ cl.free = chunk_size
    /\ ~Live(cl.head)
    /\ event' = Ev("is_empty", FALSE, FALSE)
    /\ Crash

\* ---------------------------------------------------------------- clear

\* faulty variant: fa->tail is not moved back to fa->array
clear_finalizer_array_keep_tail ==
    /\ called' = call_finalizer_array
    /\ fa' = fa

\* clear_finalizer_array: call_finalizer_array, then fa->tail = fa->array
clear_finalizer_array ==
    /\ called' = call_finalizer_array
    /\ fa' = [fa EXCEPT !.tail = 0]

\* msgpack_zone_clear up to the first statement of clear_chunk_list
msgpack_zone_clear ==
    /\ pc = "idle"
    /\ clear_finalizer_array
    /\ c' = cl.head
    /\ pc' = "clear_chunk_list"
    /\ event' = Ev("clear", FALSE, FALSE)
    /\ cleared' = TRUE
    /\ expected' = regs
    /\ regs' = <<>>
    /\ handed' = NoHanded
    /\ UNCHANGED <<zone_live, chunk_size, heap, cl, ret>>

\* one turn of the loop of clear_chunk_list with n != NULL: free(c); c = n
clear_chunk_list_next ==
    /\ pc = "clear_chunk_list"
    /\ \E n \in read_next(c) :
          /\ n # NULL
          /\ c' = n
    /\ heap' = free_chunk(heap, c)
    /\ UNCHANGED <<pc, zone_live, chunk_size, cl, fa, ret, event, cleared, called,
                   regs, expected, handed>>

\* the statements after the loop: they write through cl->head, not through c
clear_chunk_list_tail ==
    /\ heap' = IF Live(cl.head) THEN [heap EXCEPT ![cl.head].next = NULL] ELSE heap
    /\ cl' = [head |-> cl.head, free |-> chunk_size,
              ptr |-> [base |-> cl.head, off |-> 0]]

\* the last turn of the loop (n == NULL) and the rest of clear_chunk_list
clear_chunk_list_end ==
    /\ pc = "clear_chunk_list"
    /\ NULL \in read_next(c)
    /\ clear_chunk_list_tail
    /\ pc' = "idle"
    /\ ret' = RetOk
    /\ c' = NULL
    /\ UNCHANGED <<zone_live, chunk_size, fa, event, cleared, called, regs,
                   expected, handed>>

\* ---------------------------------------------------------------- destroy

\* faulty variant: the head chunk is released before the callbacks are invoked
msgpack_zone_destroy_release_first ==
    /\ pc = "idle"
    /\ heap' = free_chunk(heap, cl.head)
    /\ called' = call_finalizer_array
    /\ c' = cl.head
    /\ pc' = "destroy_chunk_list"
    /\ event' = Ev("destroy", FALSE, FALSE)
    /\ expected' = regs
    /\ regs' = <<>>
    /\ handed' = NoHanded
    /\ UNCHANGED <<zone_live, chunk_size, cl, fa, ret, cleared>>

\* msgpack_zone_destroy up to the first statement of destroy_chunk_list:
\* destroy_finalizer_array calls the finalizers and frees fa->array (the
\* array is not read again: no operation follows destroy)
msgpack_zone_destroy ==
    /\ pc = "idle"
    /\ called' = call_finalizer_array
    /\ c' = cl.head
    /\ pc' = "destroy_chunk_list"
    /\ event' = Ev("destroy", FALSE, FALSE)
    /\ expected' = regs
    /\ regs' = <<>>
    /\ handed' = NoHanded
    /\ UNCHANGED <<zone_live, chunk_size, heap, cl, fa, ret, cleared>>

\* one turn of the loop of destroy_chunk_list: n = c->next; free(c);
\* then c = n, or the loop ends when n == NULL
destroy_chunk_list_next ==
    /\ pc = "destroy_chunk_list"
    /\ \E n \in read_next(c) :
          IF n # NULL
          THEN c' = n /\ UNCHANGED <<pc, ret>>
          ELSE pc' = "destroyed" /\ ret' = RetOk /\ c' = NULL
    /\ heap' = free_chunk(heap, c)
    /\ UNCHANGED <<zone_live, chunk_size, cl, fa, event, cleared, called, regs,
                   expected, handed>>

\* a walk that dereferences a pointer to no live chunk may trap
walk_crash ==
    /\ pc \in {"clear_chunk_list", "destroy_chunk_list"}
    /\ ~Live(c)
    /\ UNCHANGED event
    /\ Crash

\* ---------------------------------------------------------------- Next

New == \E size \in Sizes : msgpack_zone_new(size)

Allocate == \E size \in Sizes : msgpack_zone_malloc(size)

\* the i-th registration since new/clear registers cb_i with its argument arg_i
RegisterFinalizer == msgpack_zone_push_finalizer(Len(regs) + 1, Len(regs) + 1)

Next ==
    \/ New
    \/ Allocate
    \/ RegisterFinalizer
    \/ IsEmpty
    \/ is_empty_crash
    \/ msgpack_zone_clear
    \/ clear_chunk_list_next
    \/ clear_chunk_list_end
    \/ msgpack_zone_destroy
    \/ destroy_chunk_list_next
    \/ walk_crash

Spec == Init /\ [][Next]_vars

\* ---- the same operations, the callers telling the registrations made after a
\* ---- clear() from the ones made before it

\* the argument of the i-th registration since new/clear: the arguments handed
\* over after a clear() differ from the ones handed over before any clear()
ArgOf(i) == IF cleared THEN MaxFin + i ELSE i

RegisterFinalizerArg ==
    msgpack_zone_push_finalizer(Len(regs) + 1, ArgOf(Len(regs) + 1))

\* one baseline size that admits fast-path allocations and expansions
NewBaseline == msgpack_zone_new(Word \div 2)

NextArg ==
    \/ NewBaseline
    \/ Allocate
    \/ RegisterFinalizerArg
    \/ IsEmpty
    \/ is_empty_crash
    \/ msgpack_zone_clear
    \/ clear_chunk_list_next
    \/ clear_chunk_list_end
    \/ msgpack_zone_destroy
    \/ destroy_chunk_list_next
    \/ walk_crash

SpecArg == Init /\ [][NextArg]_vars

\* ---- the same operations and direct calls of the growth routine

\* the capacity up to which the growth routine is called directly
MaxDirectEnd == MaxFin

\* msgpack_zone_push_finalizer_expand is not static: a caller can call it in
\* any state between two calls, whether or not the array is full
PushFinalizerExpand ==
    /\ pc = "idle"
    /\ Len(regs) < MaxFin
    /\ fa.end < MaxDirectEnd
    /\ called' = <<>>
    /\ expected' = <<>>
    /\ UNCHANGED cleared
    /\ msgpack_zone_push_finalizer_expand(Len(regs) + 1, Len(regs) + 1)

\* call_finalizer_array calls through an entry that was never written: the
\* call may trap (when it does not, the entry invoked is recorded as Uninit)
call_finalizer_crash ==
    /\ pc = "idle"
    /\ \E i \in 1..fa.tail : fa.array[i] = Uninit
    /\ \E op \in {"clear", "destroy"} : event' = Ev(op, FALSE, FALSE)
    /\ Crash

NextExpand ==
    \/ Next
    \/ PushFinalizerExpand
    \/ call_finalizer_crash

SpecExpand == Init /\ [][NextExpand]_vars

\* ---- the same operations and the operations called after destroy

\* After msgpack_zone_destroy the chunks and fa->array are released and the
\* fields of the zone record keep their values; no operation tests for that.
\* Released memory that is read yields what it held (or, for a chunk's next,
\* any value), or the access traps.

\* the zone is a destroyed one and the last call on it was a destroy or a
\* clear: the calls on a destroyed zone are followed through any number of
\* destroy and clear calls up to the first allocate, register_finalizer or
\* is_empty
JustDestroyed == pc = "destroyed" /\ event.op \in {"destroy", "clear"}

\* msgpack_zone_malloc on a destroyed zone
AllocateAfterDestroy ==
    /\ JustDestroyed
    /\ called' = <<>>
    /\ expected' = <<>>
    /\ UNCHANGED cleared
    /\ \E size \in Sizes :
          IF cl.free < size
          THEN msgpack_zone_malloc_expand(size)
          ELSE msgpack_zone_malloc_fast(size)

\* msgpack_zone_push_finalizer on a destroyed zone: the fast path writes into
\* the released array, the growth routine passes it to realloc
RegisterAfterDestroy ==
    /\ JustDestroyed
    /\ called' = <<>>
    /\ expected' = <<>>
    /\ UNCHANGED cleared
    /\ Len(regs) < MaxFin
    /\ IF fa.tail = fa.end
       THEN msgpack_zone_push_finalizer_expand(Len(regs) + 1, Len(regs) + 1)
       ELSE msgpack_zone_push_finalizer_fast(Len(regs) + 1, Len(regs) + 1)

\* msgpack_zone_is_empty on a destroyed zone
IsEmptyAfterDestroy ==
    /\ JustDestroyed
    /\ \E r \in msgpack_zone_is_empty :
          ret' = [ok |-> r, base |-> NULL, off |-> 0]
    /\ event' = Ev("is_empty", FALSE, FALSE)
    /\ called' = <<>>
    /\ expected' = <<>>
    /\ UNCHANGED <<pc, zone_live, chunk_size, heap, cl, fa, c, cleared, regs, handed>>

\* msgpack_zone_destroy on a destroyed zone: the callbacks fa->tail still
\* covers are read from the released array and invoked again, the array is
\* passed to free again, then destroy_chunk_list walks from cl->head
DestroyAfterDestroy ==
    /\ JustDestroyed
    /\ called' = call_finalizer_array
    /\ c' = cl.head
    /\ pc' = "destroy_chunk_list"
    /\ event' = Ev("destroy", FALSE, FALSE)
    /\ expected' = regs
    /\ regs' = <<>>
    /\ handed' = NoHanded
    /\ UNCHANGED <<zone_live, chunk_size, heap, cl, fa, ret, cleared>>

\* msgpack_zone_clear on a destroyed zone, up to the first statement of
\* clear_chunk_list
ClearAfterDestroy ==
    /\ JustDestroyed
    /\ clear_finalizer_array
    /\ c' = cl.head
    /\ pc' = "clear_after_destroy"
    /\ event' = Ev("clear", FALSE, FALSE)
    /\ cleared' = TRUE
    /\ expected' = regs
    /\ regs' = <<>>
    /\ handed' = NoHanded
    /\ UNCHANGED <<zone_live, chunk_size, heap, cl, ret>>

\* one turn of the loop of clear_chunk_list with n != NULL, on a destroyed zone
clear_after_destroy_next ==
    /\ pc = "clear_after_destroy"
    /\ \E n \in read_next(c) :
          /\ n # NULL
          /\ c' = n
    /\ heap' = free_chunk(heap, c)
    /\ UNCHANGED <<pc, zone_live, chunk_size, cl, fa, ret, event, cleared, called,
                   regs, expected, handed>>

\* the last turn of the loop and the rest of clear_chunk_list, on a destroyed
\* zone: the zone stays a destroyed one
clear_after_destroy_end ==
    /\ pc = "clear_after_destroy"
    /\ NULL \in read_next(c)
    /\ clear_chunk_list_tail
    /\ pc' = "destroyed"
    /\ ret' = RetOk
    /\ c' = NULL
    /\ UNCHANGED <<zone_live, chunk_size, fa, event, cleared, called, regs,
                   expected, handed>>

\* an access to released memory by an operation on a destroyed zone may trap:
\* register_finalizer, clear and destroy access the released array, is_empty
\* and the walk of clear_chunk_list a released chunk
after_destroy_crash ==
    /\ \/ /\ JustDestroyed
          /\ \E op \in {"register", "clear", "destroy"} : event' = Ev(op, FALSE, FALSE)
       \/ /\ JustDestroyed
          /\ cl.free = chunk_size
          /\ ~Live(cl.head)
          /\ event' = Ev("is_empty", FALSE, FALSE)
       \/ /\ pc = "clear_after_destroy"
          /\ ~Live(c)
          /\ UNCHANGED event
    /\ Crash

NextAfterDestroy ==
    \/ Next
    \/ AllocateAfterDestroy
    \/ RegisterAfterDestroy
    \/ IsEmptyAfterDestroy
    \/ DestroyAfterDestroy
    \/ ClearAfterDestroy
    \/ clear_after_destroy_next
    \/ clear_after_destroy_end
    \/ after_destroy_crash

SpecAfterDestroy == Init /\ [][NextAfterDestroy]_vars

\* ---------------------------------------------------------------- claims

Reverse(s) == [i \in 1..Len(s) |-> s[Len(s) + 1 - i]]

AllocOk == event.op = "allocate" /\ ~event.oom /\ pc = "idle"

\* C1: a clear() or a destroy() invokes the callbacks registered since
\* new()/clear(), with their own arguments, in exactly the reverse of the
\* registration order, each once, and no other callback.
FinalizersRunInReverse ==
    event.op \in {"clear", "destroy"} => called = Reverse(expected)

\* a destroy() after a clear() that ran MaxFin callbacks registered across two
\* growths of the array
FinalizersRunInReverse_witness ==
    /\ event.op = "destroy"
    /\ cleared
    /\ Len(called) = MaxFin
    /\ Len(called) > first_nnext
    /\ fa.end = 2 * first_nnext

\* C2: clear() leaves one live chunk, head refers to it, head.next is null,
\* the cursor is at its payload start and free is the baseline size.
ClearKeepsOneLiveChunk ==
    (event.op = "clear" /\ pc = "idle") =>
        /\ Live(cl.head)
        /\ heap[cl.head].next = NULL
        /\ \A a \in Addrs : heap[a].live => a = cl.head
        /\ cl.ptr = [base |-> cl.head, off |-> 0]
        /\ cl.free = chunk_size

\* C3: destroy() releases every chunk that is still allocated, each once:
\* every block it frees is live when freed, and none is live afterwards.
DestroyFreesEachChunkOnce ==
    /\ pc = "destroy_chunk_list" => Live(c)
    /\ pc = "destroyed" => \A a \in Addrs : ~heap[a].live

\* C4: when the backing allocator fails in the slow path of allocate, the call
\* reports failure and leaves the chunk list and the finalizer array as they were.
AllocFailureIsReported ==
    [][(event'.op = "allocate" /\ event'.oom) =>
          /\ pc' = "idle"
          /\ ~ret'.ok
          /\ cl' = cl
          /\ heap' = heap
          /\ fa' = fa]_vars

\* C5: the regions successful allocate calls return between a new()/clear()
\* and the next clear()/destroy() do not overlap, each lies inside the payload
\* of one chunk, and the bytes handed out of a chunk never exceed its payload.
AllocRegionsDisjointInPayload ==
    [][AllocOk' =>
          /\ Bytes(ret'.off, event'.size) \cap handed[ret'.base] = {}
          /\ heap'[ret'.base].live
          /\ ret'.off + event'.size <= heap'[ret'.base].size
          /\ Cardinality(handed'[ret'.base]) <= heap'[ret'.base].size]_vars

\* the values is_empty() returns with the zone untouched since new(): TRUE
IsEmptyAfterNew ==
    (event.op = "new" /\ pc = "idle") => msgpack_zone_is_empty = {TRUE}

\* C6 as stated: before any clear(), is_empty() is true right after a
\* successful new() and false right after any successful allocate and any
\* successful register_finalizer.
IsEmptyBeforeClear_stated ==
    (pc = "idle" /\ ~cleared) =>
        /\ IsEmptyAfterNew
        /\ (event.op \in {"allocate", "register"} /\ ~event.oom)
              => msgpack_zone_is_empty = {FALSE}

\* C6 amended: before any clear(), is_empty() is true right after a successful
\* new(), and false once an allocate of size > 0 or a register_finalizer has
\* succeeded (an allocate of size 0 consumes nothing and leaves it true).
IsEmptyBeforeClear ==
    (pc = "idle" /\ ~cleared) =>
        /\ IsEmptyAfterNew
        /\ ((\E a \in Addrs : handed[a] # {}) \/ regs # <<>>)
              => msgpack_zone_is_empty = {FALSE}
        /\ (AllocOk /\ event.size = 0 /\ regs = <<>>
                /\ \A a \in Addrs : handed[a] = {})
              => msgpack_zone_is_empty = {TRUE}

\* before any clear() and with no finalizer registered, an allocate of
\* size > 0 has just expanded the chunk list and is_empty() is false
IsEmptyBeforeClear_witness ==
    /\ pc = "idle"
    /\ ~cleared
    /\ AllocOk
    /\ event.slow
    /\ event.size > 0
    /\ regs = <<>>
    /\ msgpack_zone_is_empty = {FALSE}

\* C7: right after clear(), is_empty() reads a live head chunk and is true.
ClearThenIsEmpty ==
    (event.op = "clear" /\ pc = "idle") =>
        /\ Live(cl.head)
        /\ msgpack_zone_is_empty = {TRUE}

\* baseline_size doubled the least number of times that reaches size, in
\* unbounded arithmetic; no doubling of 0 ever does
RECURSIVE Doubled(_, _)
Doubled(s, size) ==
    IF s = 0 THEN Diverged
    ELSE IF s >= size THEN s
    ELSE Doubled(2 * s, size)

\* C8: allocate(size) with size > baseline_size, the backing allocator not
\* failing, returns the start of a fresh chunk of payload s = baseline_size
\* doubled the least number of times with s >= size; the chunk is the new head,
\* its next is the previous head, free = s - size, cursor = chunk start + size.
ExpandReturnsFreshChunk ==
    [][(event'.op = "allocate" /\ event'.size > chunk_size /\ ~event'.oom) =>
          LET s == Doubled(chunk_size, event'.size) IN
          /\ pc' = "idle"
          /\ ret'.ok
          /\ s >= event'.size
          /\ ~Live(cl'.head)
          /\ heap'[cl'.head].live
          /\ heap'[cl'.head].size >= event'.size
          /\ heap'[cl'.head].next = cl.head
          /\ ret' = RetPtr(cl'.head, 0)
          /\ cl'.free = s - event'.size
          /\ cl'.ptr = [base |-> cl'.head, off |-> event'.size]]_vars

\* C9: when realloc fails in register_finalizer the call reports failure, the
\* finalizer array (length, capacity, entries) and the chunk list are as before,
\* and a later clear()/destroy() would invoke the same callbacks as before.
RegisterFailureChangesNothing ==
    [][(event'.op = "register" /\ event'.oom) =>
          /\ ~ret'.ok
          /\ pc' = pc
          /\ fa' = fa
          /\ call_finalizer_array' = call_finalizer_array
          /\ regs' = regs
          /\ cl' = cl
          /\ heap' = heap]_vars

\* the growth of a full array of first_nnext registered entries failed
RegisterFailureChangesNothing_witness ==
    /\ event.op = "register"
    /\ event.oom
    /\ ~ret.ok
    /\ fa.tail = first_nnext
    /\ fa.end = first_nnext
    /\ Len(regs) = first_nnext

\* C10: until the next clear()/destroy() every region allocate returned lies in
\* a live chunk, and no allocate and no register_finalizer releases or changes
\* a live chunk.
RegionsStayLive ==
    /\ [](pc = "idle" => \A a \in Addrs : handed[a] # {} => heap[a].live)
    /\ [][event'.op \in {"allocate", "register"} =>
             \A a \in Addrs : heap[a].live => heap'[a] = heap[a]]_vars

\* C11: an allocate(size) with size <= baseline_size that directly follows a
\* completed clear() requests no chunk from the backing allocator, and the
\* region it returns lies inside the baseline payload of the one chunk clear()
\* retained, which is live.
ClearThenAllocateReusesChunk ==
    [][(event.op = "clear" /\ pc = "idle" /\ event'.op = "allocate"
            /\ event'.size <= chunk_size) =>
          /\ ~event'.slow
          /\ heap' = heap
          /\ ret'.ok
          /\ Live(ret'.base)
          /\ \A a \in Addrs : heap[a].live => a = ret'.base
          /\ ret'.off + event'.size <= chunk_size]_vars

\* C12: a clear() that directly follows a completed clear() invokes no
\* callback, leaves the finalizer array as it is, and starts its walk at a live
\* chunk whose next is null, so that the walk releases nothing and rewrites the
\* chunk list with the values it already has.
ClearTwiceIsNoOp ==
    [][(event.op = "clear" /\ pc = "idle" /\ pc' = "clear_chunk_list") =>
          /\ called' = <<>>
          /\ fa' = fa
          /\ Live(c')
          /\ heap[c'].next = NULL
          /\ cl = [head |-> c', free |-> chunk_size,
                   ptr |-> [base |-> c', off |-> 0]]]_vars

\* C13: between new() and destroy(), whenever no call is in progress, head
\* refers to a live chunk, the cursor lies inside head's payload or at its end,
\* and free is the number of bytes from the cursor to the end of the payload.
ChunkListInvariant ==
    pc = "idle" =>
        /\ Live(cl.head)
        /\ cl.ptr.base = cl.head
        /\ 0 <= cl.ptr.off
        /\ cl.ptr.off <= heap[cl.head].size
        /\ cl.free = heap[cl.head].size - cl.ptr.off

\* a step that invokes finalizer callbacks: the first step of clear()/destroy()
InvokesFinalizers == pc = "idle" /\ pc' \in {"clear_chunk_list", "destroy_chunk_list"}

\* a step that releases a chunk
ReleasesChunk == \E a \in Addrs : heap[a].live /\ ~heap'[a].live

\* C14: the step of clear()/destroy() that invokes the callbacks releases no
\* chunk and invokes all of them, and a chunk is released only while no
\* registered callback is still to be invoked: so every chunk that was live
\* when a callback was registered is still live when the callback runs.
FinalizersBeforeRelease ==
    /\ [][InvokesFinalizers =>
             /\ heap' = heap
             /\ Len(called') = Len(regs)
             /\ regs' = <<>>]_vars
    /\ [][ReleasesChunk =>
             /\ pc \in {"clear_chunk_list", "destroy_chunk_list"}
             /\ regs = <<>>
             /\ called' = called]_vars

\* a destroy() of an arena of two chunks has invoked two callbacks and then
\* released both chunks
FinalizersBeforeRelease_witness ==
    /\ pc = "destroyed"
    /\ event.op = "destroy"
    /\ ~cleared
    /\ Len(called) = 2
    /\ \A a \in Addrs : ~heap[a].live

\* C15: the chunk-size computation of the slow path of allocate terminates for
\* every baseline size and every requested size of the machine word, and
\* yields a size s >= size.
ExpandLoopTerminates ==
    [][(event'.op = "allocate" /\ event'.slow) =>
          /\ pc' # "hung"
          /\ expand_loop(chunk_size, event'.size) # Diverged
          /\ expand_loop(chunk_size, event'.size) >= event'.size]_vars

\* C16: after a clear(), a later clear() or destroy() invokes exactly the
\* callbacks registered since that clear(), in reverse order, and none that an
\* earlier clear() consumed; clear() keeps the array and its capacity, and the
\* entries registered afterwards occupy the retained storage from index 0 on,
\* without growth while a slot is left.
ConsumedFinalizersNotRerun ==
    /\ [](pc = "idle" =>
             /\ fa.tail = Len(regs)
             /\ \A i \in 1..fa.tail : fa.array[i] = regs[i])
    /\ [][InvokesFinalizers =>
             /\ called' = Reverse(regs)
             /\ cleared => \A i \in DOMAIN called' : called'[i].data > MaxFin]_vars
    /\ [][(pc = "idle" /\ pc' = "clear_chunk_list") =>
             /\ fa'.array = fa.array
             /\ fa'.end = fa.end
             /\ fa'.tail = 0]_vars
    /\ [][(event'.op = "register" /\ ret'.ok /\ fa.tail < fa.end) =>
             /\ ~event'.slow
             /\ fa'.end = fa.end
             /\ fa'.tail = fa.tail + 1
             /\ \A i \in 1..fa.end : i # fa.tail + 1 => fa'.array[i] = fa.array[i]]_vars

\* a destroy() after a clear() has invoked callbacks registered after the
\* clear(), while the storage beyond them still holds an entry the clear()
\* consumed
ConsumedFinalizersNotRerun_witness ==
    /\ event.op = "destroy"
    /\ cleared
    /\ called # <<>>
    /\ \A i \in DOMAIN called : called[i].data > MaxFin
    /\ \E i \in (fa.tail + 1)..fa.end : fa.array[i].data \in 1..MaxFin

Max(a, b) == IF a >= b THEN a ELSE b

\* C17: the finalizer array always has length <= capacity; the capacity
\* changes only in a successful register_finalizer on a full array, and then
\* becomes max(length*2, minimum capacity): the minimum capacity when the
\* array was empty and unallocated, exactly double the old capacity otherwise.
FinalizerArrayCapacity ==
    /\ [](fa.tail <= fa.end /\ Len(fa.array) = fa.end)
    /\ [][fa'.end # fa.end =>
             /\ event'.op = "register" /\ event'.slow /\ ret'.ok
             /\ fa.tail = fa.end
             /\ fa'.end = Max(fa.tail * 2, first_nnext)
             /\ fa.end = 0 => (fa.array = <<>> /\ fa'.end = first_nnext)
             /\ fa.end # 0 => fa'.end = 2 * fa.end]_vars
    /\ [][(event'.op = "register" /\ ret'.ok /\ fa.tail = fa.end) =>
             fa'.end > fa.end]_vars

\* the array has grown twice: to the minimum capacity, then to its double
FinalizerArrayCapacity_witness ==
    /\ event.op = "register"
    /\ event.slow
    /\ ret.ok
    /\ fa.end = 2 * first_nnext
    /\ fa.tail = first_nnext + 1

\* C18: a successful append through the growth routine, in whatever state the
\* routine is called, writes the new entry at the index that was the length
\* before the call, adds exactly one to the length and leaves the entries
\* below that index as they were.
GrowthAppendsAtLength ==
    [][(event'.op = "register" /\ event'.slow /\ ret'.ok) =>
          /\ fa'.tail = fa.tail + 1
          /\ fa'.array[fa.tail + 1] = [func |-> Len(regs) + 1, data |-> Len(regs) + 1]
          /\ \A i \in 1..fa.tail : fa'.array[i] = fa.array[i]]_vars

\* C19: new(baseline_size) either returns an arena with exactly one live chunk,
\* of payload baseline_size, free = baseline_size, the cursor at the chunk
\* start and an empty finalizer array, or reports failure with nothing left
\* allocated.
NewReturnsArenaOrNothing ==
    event.op = "new" =>
        IF ret.ok
        THEN /\ pc = "idle"
             /\ zone_live
             /\ Live(cl.head)
             /\ \A a \in Addrs : heap[a].live => a = cl.head
             /\ heap[cl.head].next = NULL
             /\ heap[cl.head].size = chunk_size
             /\ cl.free = chunk_size
             /\ cl.ptr = [base |-> cl.head, off |-> 0]
             /\ fa = [array |-> <<>>, tail |-> 0, end |-> 0]
        ELSE /\ pc = "start"
             /\ ~zone_live
             /\ \A a \in Addrs : ~heap[a].live

\* C20: every operation performed on an arena after destroy() reports an
\* error: it returns no success, invokes no callback, and leaves the chunk
\* blocks, the chunk list and the finalizer array as they are.
UseAfterDestroyIsReported ==
    [][pc = "destroyed" =>
          /\ pc' = "destroyed"
          /\ ~ret'.ok
          /\ called' = <<>>
          /\ heap' = heap
          /\ cl' = cl
          /\ fa' = fa]_vars

====
